---- MODULE Spec2Model ----
(***************************************************************************)
(* varivari: the VarInt codec of src/src/lib.rs and src/src/io.rs.         *)
(*                                                                         *)
(* A byte (u8) is an integer in 0..255.  A u32 is the set of its set bit   *)
(* positions, a subset of 0..31, so that the 32-bit width is exact: a      *)
(* shift drops the bits that leave the word.  An i32 is an integer.        *)
(* Rust indexes from 0 and TLA+ sequences from 1: source index i is        *)
(* sequence index i + 1.                                                   *)
(***************************************************************************)
EXTENDS Integers, Sequences, FiniteSets

(* ------------------------------ constants ------------------------------ *)

\* pub(crate) const MSB: u8 = 0b1000_0000;
MSB == 128

\* pub const MAX_LEN: usize = 5;
MAX_LEN == 5

\* pub const LAST_BYTE_MASK: u8 = 0b0000_1111;
LAST_BYTE_MASK == 15

\* The longest byte sequence handed to the decoders and to the reader.
MaxInputLen == 6

\* The number of bytes of the buffer write_varint writes into.
SinkLen == 6

\* The number of write_varint calls made on one buffer.
MaxWrites == 2

(* ------------------------------ machine words -------------------------- *)

\* 2^0 .. 2^30
Pow2Table ==
    <<1, 2, 4, 8, 16, 32, 64, 128, 256, 512, 1024, 2048, 4096, 8192, 16384,
      32768, 65536, 131072, 262144, 524288, 1048576, 2097152, 4194304,
      8388608, 16777216, 33554432, 67108864, 134217728, 268435456,
      536870912, 1073741824>>

Pow2(n) == Pow2Table[n + 1]

U32Bits == 0 .. 31

\* Bit i of a byte.
BitOf(b, i) == (b \div Pow2(i)) % 2

\* byte & !MSB
AndNotMSB(b) == b % MSB

\* byte & MSB
AndMSB(b) == (b \div MSB) * MSB

\* byte | MSB
OrMSB(b) == AndNotMSB(b) + MSB

\* byte as u32
u32_of_u8(b) == {i \in 0 .. 7 : BitOf(b, i) = 1}

\* The number a set of bit positions below 31 stands for.
RECURSIVE NatOfBits(_)
NatOfBits(x) ==
    IF x = {} THEN 0
    ELSE LET i == CHOOSE j \in x : TRUE
         IN Pow2(i) + NatOfBits(x \ {i})

\* source as u8
u8_of_u32(x) == NatOfBits(x \cap (0 .. 7))

\* x << k on u32 (k < 32): the bits that leave the word are lost.
Shl(x, k) == {i + k : i \in x} \cap U32Bits

\* x >> k on u32.
Shr(x, k) == {i - k : i \in {j \in x : j >= k}}

\* The u32 of a literal below 2^31.
U32(n) == {i \in 0 .. 30 : (n \div Pow2(i)) % 2 = 1}

\* source as u32, of an i32: the two's complement bit pattern.
u32_of_i32(i) == IF i >= 0 THEN U32(i) ELSE U32Bits \ U32(-(i + 1))

\* source as i32, of a u32.
i32_of_u32(x) ==
    IF 31 \in x THEN -(NatOfBits(U32Bits \ x)) - 1 ELSE NatOfBits(x)

Min(S) == CHOOSE m \in S : \A n \in S : m <= n
Max(S) == CHOOSE m \in S : \A n \in S : m >= n

(* ------------------------------ the value type ------------------------- *)

\* [0u8; 5]
ZeroInner == [i \in 1 .. MAX_LEN |-> 0]

\* struct VarInt { inner, len }, wrapped in the Result of the call that
\* made it: kind is "Ok" or the error's name.
Ok(inner, len) == [kind |-> "Ok", inner |-> inner, len |-> len]
Err(name) == [kind |-> name, inner |-> ZeroInner, len |-> 0]

\* VarInt::as_slice / AsRef<[u8]>: &self.inner[..self.len]
as_slice(v) == SubSeq(v.inner, 1, v.len)

\* VarInt::into_inner / as_inner / From<VarInt> for VarIntInner
into_inner(v) == v.inner

(* ------------------------------ the classifier ------------------------- *)

\* Option<T>
None == [some |-> FALSE]
Some(v) == [some |-> TRUE, val |-> v]

\* enum VarIntFindResult { Tight(&[u8]), Loose(&[u8], usize) }
Tight(slice) == [tag |-> "Tight", slice |-> slice]
Loose(slice, actual_len) ==
    [tag |-> "Loose", slice |-> slice, actual_len |-> actual_len]

\* VarInt::find_loose with the test `byte & MSB != 0`: the polarity one of
\* the repository's drafts has.
find_loose_flipped(slice) ==
    LET taken == 1 .. (IF Len(slice) < MAX_LEN THEN Len(slice) ELSE MAX_LEN)
        hits == {i \in taken : AndMSB(slice[i]) # 0}
    IN IF hits = {} THEN None ELSE Some(SubSeq(slice, 1, Min(hits)))

\* VarInt::find_loose without `.take(MAX_LEN)`: the whole slice is
\* searched for a terminator.
find_loose_untaken(slice) ==
    LET hits == {i \in 1 .. Len(slice) : AndMSB(slice[i]) = 0}
    IN IF hits = {} THEN None ELSE Some(SubSeq(slice, 1, Min(hits)))

\* VarInt::find_loose: the prefix ending at the first of the first MAX_LEN
\* bytes whose continuation bit is clear.
find_loose(slice) ==
    LET taken == 1 .. (IF Len(slice) < MAX_LEN THEN Len(slice) ELSE MAX_LEN)
        hits == {i \in taken : AndMSB(slice[i]) = 0}
    IN IF hits = {} THEN None ELSE Some(SubSeq(slice, 1, Min(hits)))

\* VarInt::find_from_loose without `.rev()`: the search for a byte with
\* payload runs from the front.
find_from_loose_front(slice) ==
    LET n == Len(slice)
    IN IF n = 1 \/ AndNotMSB(slice[n]) # 0
       THEN Tight(slice)
       ELSE LET found == {i \in 1 .. n - 1 : AndNotMSB(slice[i]) # 0}
            IN Loose(slice, IF found = {} THEN 1 ELSE Min(found))

\* VarInt::find_from_loose.  The caller passes a non-empty slice (the read
\* of slice.last() is unchecked).
find_from_loose(slice) ==
    LET n == Len(slice)
    IN IF n = 1 \/ AndNotMSB(slice[n]) # 0
       THEN Tight(slice)
       ELSE LET found == {i \in 1 .. n - 1 : AndNotMSB(slice[i]) # 0}
            IN Loose(slice, IF found = {} THEN 1 ELSE Max(found))

\* VarInt::find
find(slice) ==
    LET l == find_loose(slice)
    IN IF l.some THEN Some(find_from_loose(l.val)) ELSE None

(* ------------------------------ encode --------------------------------- *)

\* The loop of From<u32> with `source == 0` tested before the shift: the
\* encoder then emits one byte more than the value needs.
RECURSIVE from_u32_loop_late(_, _, _)
from_u32_loop_late(buf, source, idx) ==
    IF idx > MAX_LEN
    THEN Err("unreachable_unchecked")
    ELSE LET byte == AndNotMSB(u8_of_u32(source))
         IN IF source = {}
            THEN Ok([buf EXCEPT ![idx] = byte], idx)
            ELSE from_u32_loop_late([buf EXCEPT ![idx] = OrMSB(byte)],
                                    Shr(source, 7), idx + 1)

VarInt_from_u32_late(source) == from_u32_loop_late(ZeroInner, source, 1)

\* The loop of From<u32> for VarInt, entered at buffer slot idx.  Leaving
\* the loop reaches unreachable_unchecked().
RECURSIVE from_u32_loop(_, _, _)
from_u32_loop(buf, source, idx) ==
    IF idx > MAX_LEN
    THEN Err("unreachable_unchecked")
    ELSE LET byte == AndNotMSB(u8_of_u32(source))
             rest == Shr(source, 7)
         IN IF rest = {}
            THEN Ok([buf EXCEPT ![idx] = byte], idx)
            ELSE from_u32_loop([buf EXCEPT ![idx] = OrMSB(byte)], rest, idx + 1)

\* impl From<u32> for VarInt
VarInt_from_u32(source) == from_u32_loop(ZeroInner, source, 1)

\* impl From<i32> for VarInt
VarInt_from_i32(source) == VarInt_from_u32(u32_of_i32(source))

(* ------------------------------ decode to integers --------------------- *)

\* impl From<VarInt> for u32: result |= (byte as u32) << (idx * 7) over
\* the five bytes of inner.
u32_from_VarInt(v) ==
    UNION {Shl(u32_of_u8(v.inner[i]), (i - 1) * 7) : i \in 1 .. MAX_LEN}

\* impl From<VarInt> for i32
i32_from_VarInt(v) == i32_of_u32(u32_from_VarInt(v))

(* ------------------------------ decode from bytes ---------------------- *)

\* buf[from..to].fill(0) that starts one slot late.
fill_zero_late(buf, from, to) ==
    [i \in DOMAIN buf |-> IF from + 1 < i /\ i <= to THEN 0 ELSE buf[i]]

\* buf[from..to].fill(0), from and to as in the source (0-based, to excluded).
fill_zero(buf, from, to) ==
    [i \in DOMAIN buf |-> IF from < i /\ i <= to THEN 0 ELSE buf[i]]

\* buf[..len].copy_from_slice(&source[..len])
copy_from_slice(buf, source, len) ==
    [i \in DOMAIN buf |-> IF i <= len THEN source[i] ELSE buf[i]]

\* impl TryFrom<VarIntInner> for VarInt
VarInt_try_from_inner(source) ==
    LET r == find(source)
    IN IF ~r.some
       THEN Err("TryFromVarIntInnerError")
       ELSE LET f == r.val
                len == IF f.tag = "Tight" THEN Len(f.slice) ELSE f.actual_len
                masked == IF f.tag = "Tight"
                          THEN source
                          ELSE [source EXCEPT ![len] = AndNotMSB(@)]
            IN Ok(fill_zero(masked, len, MAX_LEN), len)

\* impl TryFrom<&[u8]> for VarInt
VarInt_try_from_slice(source) ==
    LET r == find(source)
    IN IF ~r.some
       THEN Err("TryFromVarIntSliceError")
       ELSE LET f == r.val
                len == IF f.tag = "Tight" THEN Len(f.slice) ELSE f.actual_len
                buf == IF f.tag = "Tight"
                       THEN ZeroInner
                       ELSE [ZeroInner EXCEPT ![len] = AndNotMSB(@)]
            IN Ok(copy_from_slice(buf, source, len), len)

(* ------------------------------ streaming read ------------------------- *)

\* The byte loop of read_varint with `0 => break` for the arm of a read of
\* no byte: the end of the input leaves the loop as a fifth continuation
\* byte does.
RECURSIVE read_loop_break(_, _, _)
read_loop_break(buf, rest, idx) ==
    IF idx > MAX_LEN \/ rest = <<>>
    THEN [eof |-> FALSE, buf |-> buf, len |-> 0, rest |-> rest]
    ELSE LET read == [buf EXCEPT ![idx] = Head(rest)]
         IN IF AndMSB(read[idx]) = 0
            THEN [eof |-> FALSE, buf |-> read, len |-> idx, rest |-> Tail(rest)]
            ELSE read_loop_break(read, Tail(rest), idx + 1)

\* The byte loop of read_varint over a reader holding the bytes `rest`,
\* entered at buffer slot idx: a read of one byte takes the head of rest, a
\* read at its end returns 0.
RECURSIVE read_loop(_, _, _)
read_loop(buf, rest, idx) ==
    IF idx > MAX_LEN
    THEN [eof |-> FALSE, buf |-> buf, len |-> 0, rest |-> rest]
    ELSE IF rest = <<>>
    THEN [eof |-> TRUE, buf |-> buf, len |-> 0, rest |-> rest]
    ELSE LET read == [buf EXCEPT ![idx] = Head(rest)]
         IN IF AndMSB(read[idx]) = 0
            THEN [eof |-> FALSE, buf |-> read, len |-> idx, rest |-> Tail(rest)]
            ELSE read_loop(read, Tail(rest), idx + 1)

\* VarIntReadExt::read_varint on a reader holding `reader`: the io::Result
\* and what the reader still holds.
read_varint(reader) ==
    LET l == read_loop(ZeroInner, reader, 1)
    IN IF l.eof
       THEN [result |-> Err("UnexpectedEof"), reader |-> l.rest]
       ELSE IF l.len = 0
       THEN [result |-> Err("InvalidData"), reader |-> l.rest]
       ELSE LET f == find_from_loose(SubSeq(l.buf, 1, l.len))
            IN IF f.tag = "Tight"
               THEN [result |-> Ok(l.buf, l.len), reader |-> l.rest]
               ELSE LET kept == [l.buf EXCEPT
                                   ![f.actual_len] = AndMSB(@)]
                    IN [result |-> Ok(fill_zero(kept, f.actual_len, l.len),
                                      f.actual_len),
                        reader |-> l.rest]

(* ------------------------------ streaming write ------------------------ *)

\* AsRef<[u8]> for VarInt that hands out the whole backing array, as
\* AsRef<VarIntInner> does.
as_ref_u8_inner(v) == v.inner

\* impl AsRef<[u8]> for VarInt: &self.inner[..self.len as usize]
as_ref_u8(v) == SubSeq(v.inner, 1, v.len)

\* Write::write_all on a `&mut [u8]` of contents buf whose first at bytes
\* are written: the bytes that fit are stored from at on, and the call
\* fails with WriteZero when some do not fit.
write_all(buf, at, data) ==
    LET amt == IF Len(data) <= Len(buf) - at THEN Len(data)
               ELSE Len(buf) - at
    IN [result |-> IF amt = Len(data) THEN "Ok" ELSE "WriteZero",
        buf |-> [i \in DOMAIN buf |->
                    IF at < i /\ i <= at + amt THEN data[i - at] ELSE buf[i]],
        at |-> at + amt]

\* VarIntWriteExt::write_varint: self.write_all(source.as_ref())
write_varint(buf, at, source) == write_all(buf, at, as_ref_u8(source))

(* ------------------------------ the state machine --------------------- *)

\* The bytes the inputs are made of: a terminator and a continuation byte
\* with zero payload, terminators with payload inside and outside
\* LAST_BYTE_MASK, and a continuation byte with payload.
ByteVals == {0, 2, 127, 128, 130}

\* The bytes that follow the first MAX_LEN bytes of an input.
TailVals == {0, 130}

\* The byte sequences handed to the decoders and held by the reader.
ByteSeqs ==
    UNION {{s \in [1 .. n -> ByteVals] :
               \A i \in MAX_LEN + 1 .. n : s[i] \in TailVals} :
           n \in 0 .. MaxInputLen}

\* The 7-bit groups, and the 4-bit top group, the encoder's inputs are made of.
GroupVals == {0, 2, 127}
TopVals == {0, 1, 15}

\* The u32 whose 7-bit groups, from the lowest, are g[1] .. g[5].
U32OfGroups(g) == UNION {Shl(u32_of_u8(g[i]), (i - 1) * 7) : i \in 1 .. 5}

\* The integers handed to the encoder; 25565 and 140 are the documented
\* examples.
U32Vals ==
    {U32OfGroups(<<a, b, c, d, e>>) :
        a \in GroupVals, b \in GroupVals, c \in GroupVals,
        d \in GroupVals, e \in TopVals}
    \cup {U32(25565), U32(140)}

VARIABLES
    num,     \* the u32 given to VarInt::from (as i32: its bit pattern)
    bytes,   \* the array, the slice and the contents of the reader
    op,      \* the last call made
    res,     \* its Result<VarInt, _>
    start,   \* the number of bytes the reader had handed out before the
             \* last read_varint
    pos,     \* the number of bytes the reader has handed out; a call
             \* other than read_varint drops the reader, and the next
             \* read_varint opens one over bytes
    sink,    \* the contents of the `&mut [u8]` write_varint writes into; a
             \* call other than write_varint drops it, and the next
             \* write_varint takes a new one
    wpos,    \* the number of bytes of sink written
    wres,    \* the io::Result<()> of the last write_varint
    writes   \* the number of write_varint calls made on sink

vars == <<num, bytes, op, res, start, pos, sink, wpos, wres, writes>>

\* A buffer nothing was written into.  Its bytes are 0xFF, which no VarInt
\* holds past its length.
NewSink == [i \in 1 .. SinkLen |-> 255]

\* The sink after a call other than write_varint.
DropSink == sink' = NewSink /\ wpos' = 0 /\ wres' = "none" /\ writes' = 0

\* What a build may return from a call that reached unreachable_unchecked().
Undefined ==
    {Ok(inner, len) : inner \in [1 .. MAX_LEN -> TailVals],
                      len \in 0 .. MAX_LEN + 1}
    \cup {Err("abort")}

Init ==
    /\ \/ num \in U32Vals /\ bytes = <<>>
       \/ num = U32(0) /\ bytes \in ByteSeqs
    /\ op = "none"
    /\ res = Err("none")
    /\ start = 0
    /\ pos = 0
    /\ sink = NewSink
    /\ wpos = 0
    /\ wres = "none"
    /\ writes = 0

\* VarInt::from(num)
FromU32 ==
    /\ op' = "from_u32"
    /\ LET r == VarInt_from_u32(num)
       IN res' \in IF r.kind = "unreachable_unchecked" THEN Undefined ELSE {r}
    /\ start' = 0
    /\ pos' = 0
    /\ DropSink
    /\ UNCHANGED <<num, bytes>>

\* VarInt::from(num as i32)
FromI32 ==
    /\ op' = "from_i32"
    /\ LET r == VarInt_from_i32(i32_of_u32(num))
       IN res' \in IF r.kind = "unreachable_unchecked" THEN Undefined ELSE {r}
    /\ start' = 0
    /\ pos' = 0
    /\ DropSink
    /\ UNCHANGED <<num, bytes>>

\* VarInt::try_from(bytes), bytes a [u8; 5]
TryFromInner ==
    /\ Len(bytes) = MAX_LEN
    /\ op' = "try_from_inner"
    /\ res' = VarInt_try_from_inner(bytes)
    /\ start' = 0
    /\ pos' = 0
    /\ DropSink
    /\ UNCHANGED <<num, bytes>>

\* VarInt::try_from(&bytes[..])
TryFromSlice ==
    /\ op' = "try_from_slice"
    /\ res' = VarInt_try_from_slice(bytes)
    /\ start' = 0
    /\ pos' = 0
    /\ DropSink
    /\ UNCHANGED <<num, bytes>>

\* reader.read_varint(), the reader a &[u8] over bytes that has handed out
\* its first pos bytes
ReadVarint ==
    LET r == read_varint(SubSeq(bytes, pos + 1, Len(bytes)))
    IN /\ op' = "read_varint"
       /\ res' = r.result
       /\ start' = pos
       /\ pos' = Len(bytes) - Len(r.reader)
       /\ DropSink
       /\ UNCHANGED <<num, bytes>>

\* sink.write_varint(&v), v the VarInt the last constructor returned
WriteVarint ==
    /\ res.kind = "Ok"
    /\ writes < MaxWrites
    /\ LET w == write_varint(sink, wpos, res)
       IN /\ op' = "write_varint"
          /\ sink' = w.buf
          /\ wpos' = w.at
          /\ wres' = w.result
          /\ writes' = writes + 1
    /\ start' = 0
    /\ pos' = 0
    /\ UNCHANGED <<num, bytes, res>>

Next ==
    \/ FromU32 \/ FromI32 \/ TryFromInner \/ TryFromSlice \/ ReadVarint
    \/ WriteVarint

Spec == Init /\ [][Next]_vars

(* ------------------------------ properties ----------------------------- *)

\* The last call returned a VarInt.
Made == op # "none" /\ res.kind = "Ok"

\* The bytes the last read_varint took from the reader.
ReadBytes == SubSeq(bytes, start + 1, pos)

\* The bytes the last decoding call was given: the array, the slice, or what
\* the reader held.
Given == IF op = "read_varint" THEN SubSeq(bytes, start + 1, Len(bytes))
         ELSE bytes

\* Whether one of the first MAX_LEN bytes of s has its continuation bit clear.
HasTerminator(s) ==
    \E i \in 1 .. Len(s) : i <= MAX_LEN /\ AndMSB(s[i]) = 0

\* s followed by zeros up to MAX_LEN bytes: the array holding a prefix.
Padded(s) == [i \in 1 .. MAX_LEN |-> IF i <= Len(s) THEN s[i] ELSE 0]

Decoders == {"try_from_inner", "try_from_slice", "read_varint"}

\* The sum over i of (inner[i] & 0x7F) << (7 * i), modulo 2^32.  The
\* summands occupy disjoint bits, so the sum has exactly their bits.
LowBitsSum(inner) ==
    UNION {Shl(u32_of_u8(AndNotMSB(inner[i])), (i - 1) * 7) :
           i \in 1 .. MAX_LEN}

\* C1: decoding the encoding of a u32 v yields v:
\* u32::from(VarInt::from(v)) == v.
C1_RoundTrip ==
    op = "from_u32" => res.kind = "Ok" /\ u32_from_VarInt(res) = num

\* C2: the byte at index length-1 of every VarInt a constructor produced
\* has its continuation bit clear.
C2_LastByteTerminates ==
    Made => res.len >= 1 /\ AndMSB(res.inner[res.len]) = 0

\* C3: u32::from(x) is the sum of the low 7 bits of byte i shifted by 7*i,
\* modulo 2^32: a continuation bit never reaches the decoded number.
C3_DecodeLowBits ==
    Made => u32_from_VarInt(res) = LowBitsSum(res.inner)

\* C4: the slice of k bytes 0x80 (k in 1..=4) followed by 0x00 converts to
\* the VarInt of length 1 with an all-zero buffer, which converts to 0.
C4_PaddedZeroCollapses ==
    (/\ op = "try_from_slice"
     /\ \E k \in 1 .. 4 : bytes = [i \in 1 .. k + 1 |->
                                      IF i <= k THEN 128 ELSE 0])
    => /\ res.kind = "Ok"
       /\ res.len = 1
       /\ res.inner = ZeroInner
       /\ u32_from_VarInt(res) = U32(0)

\* C5: the bytes at indices [length, 5) of every VarInt a constructor
\* produced are zero, whatever followed the terminator in the input.
C5_TailIsZero ==
    Made => \A i \in 1 .. MAX_LEN : i > res.len => res.inner[i] = 0

\* C5 in a case that matters: an array with a non-zero byte after its
\* terminator was converted.
C5_Witness ==
    /\ op = "try_from_inner"
    /\ res.kind = "Ok"
    /\ \E i \in 1 .. MAX_LEN : i > res.len /\ bytes[i] # 0

\* C6: a 5-byte input is accepted whatever bits its last byte has outside
\* LAST_BYTE_MASK, and a VarInt of length 5 has none of them in its fifth
\* byte.
C6_TopNibbleClear ==
    /\ (op \in Decoders /\ HasTerminator(Given)) => res.kind = "Ok"
    /\ (Made /\ res.len = MAX_LEN)
       => res.inner[MAX_LEN] \div (LAST_BYTE_MASK + 1) = 0

\* C7: when the classifier reports a byte sequence Loose, re-encoding the
\* integer of the VarInt decoded from it gives that VarInt again: the same
\* length and the same buffer.
C7_IdempotentNormalization ==
    (/\ op \in Decoders
     /\ HasTerminator(Given)
     /\ find(Given).val.tag = "Loose")
    => /\ res.kind = "Ok"
       /\ VarInt_from_u32(u32_from_VarInt(res)) = res

\* C8: read_varint on a source with a terminator among its first 5 bytes
\* returns the VarInt the array and the slice conversion of the terminated
\* prefix return; on Loose its length is the effective length, the byte
\* there keeps its low 7 bits and the later bytes are zero.
C8_ReadMatchesDecode ==
    (op = "read_varint" /\ HasTerminator(Given))
    => /\ res.kind = "Ok"
       /\ res = VarInt_try_from_inner(Padded(ReadBytes))
       /\ res = VarInt_try_from_slice(ReadBytes)
       /\ LET f == find_from_loose(ReadBytes)
          IN f.tag = "Loose"
             => /\ res.len = f.actual_len
                /\ res.inner[res.len] = AndNotMSB(ReadBytes[res.len])
                /\ \A i \in 1 .. MAX_LEN : i > res.len => res.inner[i] = 0

\* C9: the classifier reports the buffer of VarInt::from(v) Tight, never
\* Loose and never invalid, with the length the encoder reported.
C9_EncodeIsTight ==
    op \in {"from_u32", "from_i32"}
    => /\ res.kind = "Ok"
       /\ LET r == find(res.inner)
          IN /\ r.some
             /\ r.val.tag = "Tight"
             /\ Len(r.val.slice) = res.len

\* C9 in a case that matters: a value that needs all five bytes was encoded.
C9_Witness ==
    /\ op = "from_u32"
    /\ res.kind = "Ok"
    /\ res.len = MAX_LEN
    /\ 31 \in num

\* C10: VarInt::try_from on an array or a slice fails exactly when none of
\* the first min(len, 5) bytes has its continuation bit clear.
C10_FailsIffNoTerminator ==
    /\ op = "try_from_inner"
       => (res.kind = "TryFromVarIntInnerError" <=> ~HasTerminator(bytes))
          /\ res.kind \in {"TryFromVarIntInnerError", "Ok"}
    /\ op = "try_from_slice"
       => (res.kind = "TryFromVarIntSliceError" <=> ~HasTerminator(bytes))
          /\ res.kind \in {"TryFromVarIntSliceError", "Ok"}

\* C10 in a case that matters: a slice longer than the window whose only
\* terminator lies outside it was refused.
C10_Witness ==
    /\ op = "try_from_slice"
    /\ res.kind = "TryFromVarIntSliceError"
    /\ Len(bytes) > MAX_LEN
    /\ AndMSB(bytes[MAX_LEN + 1]) = 0

\* The terminated prefix of s: its bytes up to and including the first of
\* the first MAX_LEN whose continuation bit is clear.
Prefix(s) ==
    SubSeq(s, 1, Min({i \in 1 .. Len(s) : i <= MAX_LEN /\ AndMSB(s[i]) = 0}))

\* C11: the array and the slice conversion return the VarInt of the
\* terminated prefix of their input: the same length and the same buffer
\* whatever follows the prefix, whatever the length of the input, and
\* whether the prefix comes as a slice or in a 5-byte array.
C11_PrefixDecides ==
    (op \in {"try_from_inner", "try_from_slice"} /\ HasTerminator(bytes))
    => /\ res.kind = "Ok"
       /\ res = VarInt_try_from_slice(Prefix(bytes))
       /\ res = VarInt_try_from_inner(Padded(Prefix(bytes)))

\* Whether the first n bytes of s all have the continuation bit set.
AllContinue(s, n) == \A i \in 1 .. n : AndMSB(s[i]) # 0

\* C12: read_varint fails with UnexpectedEof exactly when the reader held
\* fewer than 5 bytes, all with the continuation bit set, and with
\* InvalidData exactly when its first 5 bytes all have the continuation bit
\* set; it returns a VarInt in no such case and fails in no other way.
C12_ReadErrors ==
    op = "read_varint"
    => /\ res.kind = "UnexpectedEof"
          <=> (Len(Given) < MAX_LEN /\ AllContinue(Given, Len(Given)))
       /\ res.kind = "InvalidData"
          <=> (Len(Given) >= MAX_LEN /\ AllContinue(Given, MAX_LEN))
       /\ res.kind \in {"Ok", "UnexpectedEof", "InvalidData"}

\* C12 at the boundary between the two errors: the reader held exactly 5
\* bytes, all continuation bytes, and the call failed with InvalidData.
C12_Witness ==
    /\ op = "read_varint"
    /\ res.kind = "InvalidData"
    /\ Len(Given) = MAX_LEN

\* The indices, among the first MAX_LEN bytes the reader held, of the bytes
\* whose continuation bit is clear.
Terminators ==
    {i \in 1 .. Len(Given) : i <= MAX_LEN /\ AndMSB(Given[i]) = 0}

\* C13: a read_varint call takes from the reader the bytes up to and
\* including the first whose continuation bit is clear and none after it,
\* at most 5 and all of them when it fails; and when the bytes it took are
\* the encoding of a u32 v, the VarInt it returns decodes to v.
C13_ReadConsumes ==
    op = "read_varint"
    => /\ pos - start <= MAX_LEN
       /\ Terminators # {}
          => res.kind = "Ok" /\ pos = start + Min(Terminators)
       /\ Terminators = {}
          => /\ res.kind # "Ok"
             /\ pos = start + (IF Len(Given) < MAX_LEN THEN Len(Given)
                               ELSE MAX_LEN)
       /\ LET v == LowBitsSum(Padded(ReadBytes))
          IN (Terminators # {} /\ as_slice(VarInt_from_u32(v)) = ReadBytes)
             => u32_from_VarInt(res) = v

\* C14: a write_varint call stores the first res.len bytes of the buffer of
\* the VarInt, in order, at the sink's position, advances the position by
\* res.len and leaves every other byte of the sink as it was; when they do
\* not fit, it fails and the bytes written before stay as they were.
C14_WriteFrame ==
    [][op' = "write_varint"
       => IF res.len <= Len(sink) - wpos
          THEN /\ wres' = "Ok"
               /\ wpos' = wpos + res.len
               /\ sink' = [i \in DOMAIN sink |->
                              IF wpos < i /\ i <= wpos + res.len
                              THEN res.inner[i - wpos] ELSE sink[i]]
          ELSE /\ wres' = "WriteZero"
               /\ \A i \in 1 .. wpos : sink'[i] = sink[i]]_vars

\* C14 in a case that matters: a VarInt shorter than its buffer was written
\* twice, and the sink has bytes left after the second.
C14_Witness ==
    /\ op = "write_varint"
    /\ wres = "Ok"
    /\ writes = 2
    /\ res.len < MAX_LEN
    /\ wpos = 2 * res.len
    /\ wpos < Len(sink)
    /\ sink[wpos + 1] = 255

\* C15: on the terminated prefix p of n bytes of a decoder's input,
\* find_from_loose reports Tight exactly when n = 1 or the low 7 bits of
\* the last byte are nonzero; otherwise Loose with an effective length L,
\* 1 <= L < n, such that the bytes after the L-th have zero low 7 bits and
\* the L-th has nonzero low 7 bits, or L = 1 when no byte before the last
\* has; and the decoder returns that length.
C15_EffectiveLength ==
    (op \in Decoders /\ HasTerminator(Given))
    => LET p == Prefix(Given)
           n == Len(p)
           f == find_from_loose(p)
       IN /\ n \in 1 .. MAX_LEN
          /\ f.tag = "Tight" <=> (n = 1 \/ AndNotMSB(p[n]) # 0)
          /\ f.tag = "Tight" => res.len = n
          /\ f.tag = "Loose"
             => /\ f.actual_len >= 1
                /\ f.actual_len < n
                /\ \A i \in f.actual_len + 1 .. n - 1 : AndNotMSB(p[i]) = 0
                /\ \/ AndNotMSB(p[f.actual_len]) # 0
                   \/ /\ f.actual_len = 1
                      /\ \A i \in 1 .. n - 1 : AndNotMSB(p[i]) = 0
                /\ res.len = f.actual_len

\* C15 in a case that matters: a Loose prefix with payload in two bytes
\* before its last, cut after the later one.
C15_Witness ==
    /\ op \in Decoders
    /\ HasTerminator(Given)
    /\ LET p == Prefix(Given)
       IN /\ Len(p) >= 4
          /\ AndNotMSB(p[1]) # 0
          /\ AndNotMSB(p[2]) # 0
          /\ find_from_loose(p).tag = "Loose"
          /\ res.len = 2

\* C16: VarInt::from(num) returns from inside its loop; its length is the
\* least k in 1..=5 with num < 2^(7k), and 5 when there is none; each of
\* its bytes before the last has the continuation bit set and the last
\* has it clear.
C16_EncodeLength ==
    op = "from_u32"
    => /\ VarInt_from_u32(num).kind = "Ok"
       /\ res = VarInt_from_u32(num)
       /\ LET ks == {k \in 1 .. MAX_LEN : \A b \in num : b < 7 * k}
          IN res.len = IF ks = {} THEN MAX_LEN ELSE Min(ks)
       /\ \A i \in 1 .. MAX_LEN :
             /\ i < res.len => AndMSB(res.inner[i]) # 0
             /\ i = res.len => AndMSB(res.inner[i]) = 0

\* C16 in a case that matters: the least value that needs five bytes,
\* 2^28, was encoded.
C16_Witness ==
    /\ op = "from_u32"
    /\ num = {28}
    /\ res.kind = "Ok"
    /\ res.len = MAX_LEN

\* C17: after a VarInt a constructor returned is written with write_varint
\* into a sink nothing was written into, the write has succeeded, and
\* read_varint on the bytes written returns a VarInt of the same length and
\* buffer and leaves none of them unread.
C17_WriteThenRead ==
    (op = "write_varint" /\ writes = 1)
    => /\ wres = "Ok"
       /\ LET r == read_varint(SubSeq(sink, 1, wpos))
          IN r.result = res /\ r.reader = <<>>

\* C18: for a VarInt x a constructor returned,
\* VarInt::try_from(x.into_inner()) succeeds with the length and the buffer
\* of x.
C18_RevalidationFixedPoint ==
    Made => VarInt_try_from_inner(into_inner(res)) = res

\* C19: in the array conversion, the slice conversion and read_varint the
\* slice handed to find_from_loose is never empty and never longer than
\* min(5, the number of input bytes), a Loose effective length lies in
\* 1 .. the length of that slice, and the length of the VarInt returned
\* satisfies 1 <= length <= min(5, the number of input bytes).
C19_DecodeInBounds ==
    op \in Decoders
    => LET most == IF Len(Given) < MAX_LEN THEN Len(Given) ELSE MAX_LEN
           l == IF op = "read_varint"
                THEN (IF res.kind = "Ok" THEN Some(ReadBytes) ELSE None)
                ELSE find_loose(Given)
       IN /\ l.some
             => /\ Len(l.val) >= 1
                /\ Len(l.val) <= most
                /\ LET f == find_from_loose(l.val)
                   IN f.tag = "Loose"
                      => f.actual_len >= 1 /\ f.actual_len <= Len(l.val)
          /\ res.kind = "Ok" => res.len >= 1 /\ res.len <= most
          /\ res.kind = "Ok" <=> l.some

\* C19 in a case that matters: a slice longer than the 5-byte window, with
\* its first terminator at the fifth byte, was converted to a VarInt of
\* length 5.
C19_Witness ==
    /\ op = "try_from_slice"
    /\ Len(bytes) > MAX_LEN
    /\ res.kind = "Ok"
    /\ res.len = MAX_LEN

====
